---- MODULE Spec2Model ----
(***************************************************************************)
(* A model of the task manager: the storage/auth service (a facade over    *)
(* localStorage), the App controller (React state, handlers, effects) and  *)
(* the derived task view.                                                  *)
(*                                                                         *)
(* Values.  Every field value of a Task, Notification or User is a string. *)
(* JavaScript's undefined, null, true and false are the strings Undefined, *)
(* Null, JsTrue and JsFalse.  A timestamp string is produced from the    *)
(* clock by ToISOString and read back by GetTime, as the code does with    *)
(* new Date().toISOString() and new Date(s).getTime().                     *)
(***************************************************************************)
EXTENDS Integers, Sequences, FiniteSets, Bags, TLC

VARIABLES
    localStorage,   \* key -> payload: the three durable blobs
    clock,          \* the wall clock, in ticks of TickMs milliseconds
    last,           \* the facade call that just returned: its name, arguments, outcome
    user,           \* App state: the id of the logged-in user, or Null
    tasks,          \* App state: the task list
    notifications,  \* App state: the notification list
    searchQuery,    \* App state: the search text
    filter,         \* App state: the status filter
    sortBy,         \* App state: the sort key
    filteredAndSortedTasks, \* the memoized derived view
    inflight,       \* the bag of asynchronous calls that are suspended at an await
    effectDue,      \* the deadline effect has to run: tasks or user changed
    taskSeq,        \* how many task ids crypto.randomUUID() has given out
    toggleSeq,      \* how many times the user has toggled a status
    loginSeq,       \* how many times a user has logged in
    justReloaded    \* history: a run of checkDeadlines has set the list it
                    \* reloaded, and nothing has happened since

serviceVars == <<localStorage, clock, last>>
stateVars == <<user, tasks, notifications>>
viewVars == <<searchQuery, filter, sortBy, filteredAndSortedTasks>>
asyncVars == <<inflight, effectDue, taskSeq, toggleSeq, loginSeq, justReloaded>>
vars == <<serviceVars, stateVars, viewVars, asyncVars>>

-----------------------------------------------------------------------------
(* Bounds of the model *)

\* The clock runs from 0 to MaxClock ticks.
MaxClock == 2

\* The App's clock runs from 0 to MaxAppClock ticks.
MaxAppClock == 1

\* crypto.randomUUID() gives out at most MaxTaskIds task ids, and the user
\* toggles the status of a listed task at most MaxToggles times.
MaxTaskIds == 2
MaxToggles == 1

\* Users log in at most MaxLogins times.
MaxLogins == 3

\* At most MaxInFlight calls wait for their timer at a time, and at most
\* MaxEvaluators runs of checkDeadlines are suspended at a time.
MaxInFlight == 2
MaxEvaluators == 2

\* The longest string the text operations take apart.
MaxTextLen == 2

\* The longest task list the derived view is computed from in SpecView.
MaxViewLen == 3

\* The notification operations are called on a blob of at most MaxNotifs
\* notifications.
MaxNotifs == 3

-----------------------------------------------------------------------------
(* JavaScript values *)

Undefined == "undefined"
Null == "null"
\* The booleans true and false, as JSON writes them.
JsTrue == "true"
JsFalse == "false"

TASKS_STORAGE_KEY == "tm_tasks_db_v1"
USERS_STORAGE_KEY == "tm_users_db_v1"
NOTIFICATIONS_STORAGE_KEY == "tm_notifications_db_v1"

StorageKeys == {TASKS_STORAGE_KEY, USERS_STORAGE_KEY, NOTIFICATIONS_STORAGE_KEY}

\* One tick of the clock, in milliseconds (half a day).
TickMs == 12 * 60 * 60 * 1000

\* The ticks a timestamp string of the model can denote.
TimeRange == 0..(MaxClock + 2)

\* new Date(n).toISOString(): the UTC form of the instant of tick n.
ToISOString(n) == "T" \o ToString(n)

\* The form a datetime-local input gives for the same instant.
ToLocalString(n) == "L" \o ToString(n)

\* new Date(s).getTime(): the instant a timestamp string denotes, in ms.
GetTime(s) ==
    (CHOOSE n \in TimeRange : s \in {ToISOString(n), ToLocalString(n)}) * TickMs

\* obj.f for a parsed object: a key that is not there reads as undefined.
Get(obj, f) == IF f \in DOMAIN obj THEN obj[f] ELSE Undefined

\* JSON.parse(JSON.stringify(obj)) of a flat object: keys whose value is
\* undefined are dropped by stringify; strings, booleans and null survive.
JsonObject(obj) ==
    [f \in {g \in DOMAIN obj : obj[g] # Undefined} |-> obj[f]]

JsonArray(arr) == [i \in 1..Len(arr) |-> JsonObject(arr[i])]

\* Array.prototype.filter
Filter(arr, Keep(_)) == SelectSeq(arr, Keep)

\* Array.prototype.sort with a comparator that is a consistent ordering (here
\* always a difference of two instants): the sort is stable, so an element
\* goes after those that compare smaller and after the equal ones before it.
StableSort(arr, Cmp(_, _)) ==
    LET n == Len(arr)
        Rank(i) ==
            Cardinality({j \in 1..n :
                \/ Cmp(arr[j], arr[i]) < 0
                \/ Cmp(arr[j], arr[i]) = 0 /\ j < i}) + 1
    IN  [k \in 1..n |-> arr[CHOOSE i \in 1..n : Rank(i) = k]]

\* Array.prototype.findIndex, 1-based; 0 stands for JavaScript's -1.
FindIndex(arr, Test(_)) ==
    IF \E i \in 1..Len(arr) : Test(arr[i])
    THEN CHOOSE i \in 1..Len(arr) : Test(arr[i]) /\ \A j \in 1..(i - 1) : ~Test(arr[j])
    ELSE 0

-----------------------------------------------------------------------------
(* localStorage payloads.  A key holds nothing (getItem gives null), the   *)
(* JSON text of an array, text JSON.parse rejects, or the JSON text of a   *)
(* value that is not an array.                                             *)

Absent == [kind |-> "absent", items |-> <<>>]
Stored(arr) == [kind |-> "array", items |-> JsonArray(arr)]
Unparseable == [kind |-> "unparseable", items |-> <<>>]
NotArray == [kind |-> "notarray", items |-> <<>>]

\* localStorage.setItem(key, JSON.stringify(arr))
SetItem(ls, key, arr) == [ls EXCEPT ![key] = Stored(arr)]

\* The array a reader gets that takes absent, unparseable and non-array
\* payloads as the empty array.
ItemsOrEmpty(raw) == IF raw.kind = "array" THEN raw.items ELSE <<>>

-----------------------------------------------------------------------------
(* Storage service: tasks *)

\* getTasks(userId): the stored tasks of that owner; nothing is written.
GetTasks(ls, userId) ==
    LET raw == ls[TASKS_STORAGE_KEY]
        OwnedBy(t) == t.userId = userId
    IN  IF raw.kind = "array" THEN Filter(raw.items, OwnedBy) ELSE <<>>

\* A variant of Upsert that pushes the task without looking for its id.
UpsertAlwaysPush(allTasks, task) == Append(allTasks, task)

\* The array saveTask writes: the task replaces the first entry with its id,
\* or is pushed at the end.
Upsert(allTasks, task) ==
    LET SameId(t) == t.id = task.id
        existingIndex == FindIndex(allTasks, SameId)
    IN  IF existingIndex >= 1
        THEN [allTasks EXCEPT ![existingIndex] = task]
        ELSE Append(allTasks, task)

\* A variant of SaveTask that leaves an entry with the task's id as it is.
SaveTaskInsertOnly(ls, task) ==
    LET allTasks == ItemsOrEmpty(ls[TASKS_STORAGE_KEY])
    IN  IF \E i \in 1..Len(allTasks) : allTasks[i].id = task.id
        THEN SetItem(ls, TASKS_STORAGE_KEY, allTasks)
        ELSE SetItem(ls, TASKS_STORAGE_KEY, Append(allTasks, task))

\* saveTask(task): localStorage after the call.
SaveTask(ls, task) ==
    LET allTasks == ItemsOrEmpty(ls[TASKS_STORAGE_KEY])
    IN  SetItem(ls, TASKS_STORAGE_KEY, Upsert(allTasks, task))

\* A variant of deleteTask that takes a payload that is not an array as the
\* empty array and writes.
DeleteTaskResetting(ls, taskId) ==
    LET raw == ls[TASKS_STORAGE_KEY]
        OtherId(t) == t.id # taskId
    IN  IF raw.kind \in {"array", "absent", "notarray"}
        THEN SetItem(ls, TASKS_STORAGE_KEY, Filter(raw.items, OtherId))
        ELSE ls

\* deleteTask(taskId): localStorage after the call.  A payload JSON.parse
\* rejects or that is not an array is left as it is.
DeleteTask(ls, taskId) ==
    LET raw == ls[TASKS_STORAGE_KEY]
        OtherId(t) == t.id # taskId
    IN  IF raw.kind \in {"array", "absent"}
        THEN SetItem(ls, TASKS_STORAGE_KEY, Filter(raw.items, OtherId))
        ELSE ls

\* A variant of DeleteAllTasks whose filter keeps the wrong side.
DeleteAllTasksInverted(ls, userId) ==
    LET raw == ls[TASKS_STORAGE_KEY]
        SameOwner(t) == t.userId = userId
    IN  IF raw.kind \in {"array", "absent"}
        THEN SetItem(ls, TASKS_STORAGE_KEY, Filter(raw.items, SameOwner))
        ELSE ls

\* deleteAllTasks(userId): localStorage after the call.
DeleteAllTasks(ls, userId) ==
    LET raw == ls[TASKS_STORAGE_KEY]
        OtherOwner(t) == t.userId # userId
    IN  IF raw.kind \in {"array", "absent"}
        THEN SetItem(ls, TASKS_STORAGE_KEY, Filter(raw.items, OtherOwner))
        ELSE ls

-----------------------------------------------------------------------------
(* Storage service: notifications *)

\* A variant of getNotifications whose comparator is a minus b.
GetNotificationsOldestFirst(ls, userId) ==
    LET raw == ls[NOTIFICATIONS_STORAGE_KEY]
        OwnedBy(n) == n.userId = userId
        OldestFirst(a, b) == GetTime(a.createdAt) - GetTime(b.createdAt)
    IN  IF raw.kind = "array"
        THEN StableSort(Filter(raw.items, OwnedBy), OldestFirst)
        ELSE <<>>

\* A variant of getNotifications without the catch: the error of JSON.parse
\* is what the caller gets.
GetNotificationsUncaught(ls, userId) ==
    LET raw == ls[NOTIFICATIONS_STORAGE_KEY]
        OwnedBy(n) == n.userId = userId
        NewestFirst(a, b) == GetTime(b.createdAt) - GetTime(a.createdAt)
    IN  IF raw.kind = "array"
        THEN StableSort(Filter(raw.items, OwnedBy), NewestFirst)
        ELSE IF raw.kind = "unparseable" THEN <<[name |-> "SyntaxError"]>>
        ELSE <<>>

\* getNotifications(userId): the stored notifications of that owner, the
\* most recently created first; nothing is written.
GetNotifications(ls, userId) ==
    LET raw == ls[NOTIFICATIONS_STORAGE_KEY]
        OwnedBy(n) == n.userId = userId
        NewestFirst(a, b) == GetTime(b.createdAt) - GetTime(a.createdAt)
    IN  IF raw.kind = "array"
        THEN StableSort(Filter(raw.items, OwnedBy), NewestFirst)
        ELSE <<>>

\* A test of addNotification that compares the ids of the notifications.
NotificationExistsById(safeAll, notification) ==
    \E i \in 1..Len(safeAll) : safeAll[i].id = notification.id

\* The test of addNotification: a stored notification with the same task,
\* type and owner.
NotificationExists(safeAll, notification) ==
    \E i \in 1..Len(safeAll) :
        /\ safeAll[i].taskId = notification.taskId
        /\ safeAll[i].type = notification.type
        /\ safeAll[i].userId = notification.userId

\* addNotification(notification): localStorage after the call.  The body has
\* no await: it runs to its end when it is called.  JSON.parse throwing is
\* caught and nothing is written.
AddNotification(ls, notification) ==
    LET raw == ls[NOTIFICATIONS_STORAGE_KEY]
        safeAll == ItemsOrEmpty(raw)
    IN  IF raw.kind = "unparseable" THEN ls
        ELSE IF NotificationExists(safeAll, notification) THEN ls
        ELSE SetItem(ls, NOTIFICATIONS_STORAGE_KEY, Append(safeAll, notification))

\* markNotificationRead(notificationId): localStorage after the call.
MarkNotificationRead(ls, notificationId) ==
    LET raw == ls[NOTIFICATIONS_STORAGE_KEY]
        HasId(n) == n.id = notificationId
        idx == FindIndex(raw.items, HasId)
    IN  IF raw.kind = "array" /\ idx >= 1
        THEN SetItem(ls, NOTIFICATIONS_STORAGE_KEY,
                     [raw.items EXCEPT ![idx] = [@ EXCEPT !.isRead = JsTrue]])
        ELSE ls

\* A variant of markAllNotificationsRead that marks every notification.
MarkEveryNotificationRead(ls, userId) ==
    LET raw == ls[NOTIFICATIONS_STORAGE_KEY]
        Mark(n) == [n EXCEPT !.isRead = JsTrue]
    IN  IF raw.kind \in {"array", "absent"}
        THEN SetItem(ls, NOTIFICATIONS_STORAGE_KEY,
                     [i \in 1..Len(raw.items) |-> Mark(raw.items[i])])
        ELSE ls

\* markAllNotificationsRead(userId): localStorage after the call.
MarkAllNotificationsRead(ls, userId) ==
    LET raw == ls[NOTIFICATIONS_STORAGE_KEY]
        Mark(n) == IF n.userId = userId THEN [n EXCEPT !.isRead = JsTrue] ELSE n
    IN  IF raw.kind \in {"array", "absent"}
        THEN SetItem(ls, NOTIFICATIONS_STORAGE_KEY,
                     [i \in 1..Len(raw.items) |-> Mark(raw.items[i])])
        ELSE ls

-----------------------------------------------------------------------------
(* Storage service: registration and login *)

\* The two failure conditions of the auth service (the messages of the
\* thrown errors, without their diacritics).
UsernameTaken == "Ten dang nhap da ton tai"
InvalidCredentials == "Ten dang nhap hoac mat khau khong dung"

\* getSafeUsers()
GetSafeUsers(ls) == ItemsOrEmpty(ls[USERS_STORAGE_KEY])

\* The credential record register builds; nowMs is Date.now().
NewUser(username, password, nowMs) ==
    [id |-> "user_cred_" \o ToString(nowMs),
     username |-> username,
     password |-> password,
     name |-> username,
     email |-> username \o "@example.com",
     avatar |-> "https://ui-avatars.com/api/?name=" \o username
                \o "&background=random&color=fff&background=6366f1",
     provider |-> "credentials"]

\* A variant of Register that takes a username as taken only when the
\* password is the same too.
RegisterChecksPassword(ls, username, password, nowMs) ==
    LET users == GetSafeUsers(ls)
        newUser == NewUser(username, password, nowMs)
    IN  IF \E i \in 1..Len(users) :
              users[i].username = username /\ users[i].password = password
        THEN [ok |-> FALSE, error |-> UsernameTaken, ls |-> ls]
        ELSE [ok |-> TRUE,
              user |-> [id |-> newUser.id, name |-> newUser.name,
                        email |-> newUser.email, avatar |-> newUser.avatar,
                        provider |-> "credentials"],
              ls |-> SetItem(ls, USERS_STORAGE_KEY, Append(users, newUser))]

\* register(username, password) when the clock reads nowMs: what the call
\* returns or throws, and localStorage after it.
Register(ls, username, password, nowMs) ==
    LET users == GetSafeUsers(ls)
        newUser == NewUser(username, password, nowMs)
    IN  IF \E i \in 1..Len(users) : users[i].username = username
        THEN [ok |-> FALSE, error |-> UsernameTaken, ls |-> ls]
        ELSE [ok |-> TRUE,
              user |-> [id |-> newUser.id, name |-> newUser.name,
                        email |-> newUser.email, avatar |-> newUser.avatar,
                        provider |-> "credentials"],
              ls |-> SetItem(ls, USERS_STORAGE_KEY, Append(users, newUser))]

NoCredentials == [username |-> Undefined, password |-> Undefined]

\* A variant of Login that looks the record up by username alone.
LoginByUsername(ls, provider, credentials) ==
    LET users == GetSafeUsers(ls)
        Matches(u) == u.username = credentials.username
        idx == FindIndex(users, Matches)
        found == users[idx]
    IN  IF idx = 0
        THEN [ok |-> FALSE, error |-> InvalidCredentials, ls |-> ls]
        ELSE [ok |-> TRUE, ls |-> ls,
              user |-> [id |-> Get(found, "id"), name |-> Get(found, "name"),
                        email |-> Get(found, "email"),
                        avatar |-> Get(found, "avatar"),
                        provider |-> "credentials"]]

\* login(provider, credentials): what the call returns or throws, and
\* localStorage after it.  credentials?.username and credentials?.password
\* are both undefined when no credentials are passed: NoCredentials.
Login(ls, provider, credentials) ==
    LET users == GetSafeUsers(ls)
        Matches(u) ==
            /\ u.username = credentials.username
            /\ u.password = credentials.password
        idx == FindIndex(users, Matches)
        found == users[idx]
    IN  IF provider = "google"
        THEN [ok |-> TRUE, ls |-> ls,
              user |-> [id |-> "user_google_123", name |-> "Alex Google",
                        email |-> "alex@gmail.com",
                        avatar |-> "https://picsum.photos/seed/google/200",
                        provider |-> "google"]]
        ELSE IF provider = "github"
        THEN [ok |-> TRUE, ls |-> ls,
              user |-> [id |-> "user_github_456", name |-> "Dev Github",
                        email |-> "dev@github.com",
                        avatar |-> "https://picsum.photos/seed/github/200",
                        provider |-> "github"]]
        ELSE IF idx = 0
        THEN [ok |-> FALSE, error |-> InvalidCredentials, ls |-> ls]
        ELSE [ok |-> TRUE, ls |-> ls,
              user |-> [id |-> Get(found, "id"), name |-> Get(found, "name"),
                        email |-> Get(found, "email"),
                        avatar |-> Get(found, "avatar"),
                        provider |-> "credentials"]]

-----------------------------------------------------------------------------
(* The values the calls of the model are made with *)

UserIds == {"u1", "u2"}
TaskIds == {"t1", "t2", "t3"}

TaskFields ==
    {"id", "userId", "text", "description", "deadline", "status",
     "finishedTime", "createdAt"}

\* Task objects as the controller builds them: a new task (no description,
\* finishedTime undefined), a finished one, one reverted to pending.
TaskArgs ==
    {[id |-> i, userId |-> u, text |-> "a", description |-> v[1],
      deadline |-> ToLocalString(1), status |-> v[2], finishedTime |-> v[3],
      createdAt |-> ToISOString(0)] :
        i \in TaskIds, u \in UserIds,
        v \in {<<Undefined, "pending", Undefined>>,
               <<"d", "done", ToISOString(1)>>,
               <<"d", "pending", Null>>}}

Usernames == {"alice", "bob"}
Passwords == {"pw1", "wrong"}
Providers == {"credentials", "google", "github"}

EmptyStorage == [k \in StorageKeys |-> Absent]

\* A users blob and a notifications blob the program has written before.
SomeUsers == Register(EmptyStorage, "alice", "pw1", 0).ls[USERS_STORAGE_KEY]

SomeNotifications ==
    AddNotification(EmptyStorage,
        [id |-> "n0", userId |-> "u1", taskId |-> "t1", message |-> "m",
         type |-> "overdue", isRead |-> JsFalse, createdAt |-> ToISOString(0),
         emailSent |-> JsTrue])[NOTIFICATIONS_STORAGE_KEY]

NoCall == [op |-> "none"]

\* No asynchronous call is under way and no id has been given out.
NoAsync ==
    /\ inflight = EmptyBag
    /\ effectDue = FALSE
    /\ taskSeq = 0
    /\ toggleSeq = 0
    /\ loginSeq = 0
    /\ justReloaded = FALSE

\* The App is not mounted: its state has the initial values of useState.
NoApp ==
    /\ user = Null
    /\ tasks = <<>>
    /\ notifications = <<>>
    /\ searchQuery = ""
    /\ filter = "all"
    /\ sortBy = "deadline-asc"
    /\ filteredAndSortedTasks = <<>>
    /\ NoAsync

-----------------------------------------------------------------------------
(* Spec: the task operations of the storage service.  Each of them awaits  *)
(* its delay first and then reads, changes and writes the blob without     *)
(* another await, so the body of a call is one step.                       *)

\* The tasks blob starts absent, or holding text that is not the JSON of an
\* array; the other two blobs start absent or as the program wrote them.
Init ==
    /\ localStorage \in
         {EmptyStorage,
          [EmptyStorage EXCEPT ![TASKS_STORAGE_KEY] = Unparseable,
                               ![USERS_STORAGE_KEY] = SomeUsers,
                               ![NOTIFICATIONS_STORAGE_KEY] = SomeNotifications],
          [EmptyStorage EXCEPT ![TASKS_STORAGE_KEY] = NotArray,
                               ![USERS_STORAGE_KEY] = SomeUsers,
                               ![NOTIFICATIONS_STORAGE_KEY] = SomeNotifications]}
    /\ clock = 0
    /\ last = NoCall
    /\ NoApp

GetTasksCall ==
    \E userId \in UserIds :
        /\ last' = [op |-> "getTasks", userId |-> userId, before |-> localStorage,
                    result |-> GetTasks(localStorage, userId)]
        /\ UNCHANGED <<localStorage, clock, stateVars, viewVars, asyncVars>>

SaveTaskCall ==
    \E task \in TaskArgs :
        /\ localStorage' = SaveTask(localStorage, task)
        /\ last' = [op |-> "saveTask", task |-> task, before |-> localStorage,
                    result |-> task]
        /\ UNCHANGED <<clock, stateVars, viewVars, asyncVars>>

DeleteTaskCall ==
    \E taskId \in TaskIds :
        /\ localStorage' = DeleteTask(localStorage, taskId)
        /\ last' = [op |-> "deleteTask", taskId |-> taskId, before |-> localStorage]
        /\ UNCHANGED <<clock, stateVars, viewVars, asyncVars>>

DeleteAllTasksCall ==
    \E userId \in UserIds :
        /\ localStorage' = DeleteAllTasks(localStorage, userId)
        /\ last' = [op |-> "deleteAllTasks", userId |-> userId,
                    before |-> localStorage]
        /\ UNCHANGED <<clock, stateVars, viewVars, asyncVars>>

Next ==
    \/ GetTasksCall
    \/ SaveTaskCall
    \/ DeleteTaskCall
    \/ DeleteAllTasksCall

Spec == Init /\ [][Next]_vars

\* The tasks array a reader of the store sees.
StoredTasks(ls) == ItemsOrEmpty(ls[TASKS_STORAGE_KEY])

\* Two objects agree on every field of a Task, an absent key reading as
\* undefined.
SameTaskFields(a, b) == \A f \in TaskFields : Get(a, f) = Get(b, f)

\* C2 (upsert): after saveTask(t) on a store that held an entry with t's id,
\* the store has as many entries as before, the entries with another id are
\* where and what they were, and the entry with t's id now has t's fields;
\* on a store without t's id, the store is the old entries followed by t.
C2_Upsert ==
    last.op = "saveTask" =>
        LET t == last.task
            pre == StoredTasks(last.before)
            post == StoredTasks(localStorage)
        IN  IF \E i \in 1..Len(pre) : pre[i].id = t.id
            THEN /\ Len(post) = Len(pre)
                 /\ \A i \in 1..Len(pre) :
                        IF pre[i].id = t.id
                        THEN SameTaskFields(post[i], t)
                        ELSE post[i] = pre[i]
            ELSE /\ Len(post) = Len(pre) + 1
                 /\ SubSeq(post, 1, Len(pre)) = pre
                 /\ SameTaskFields(post[Len(post)], t)

\* saveTask has just replaced the middle entry of a store of three.
C2_Witness ==
    /\ last.op = "saveTask"
    /\ Len(StoredTasks(last.before)) = 3
    /\ StoredTasks(last.before)[2].id = last.task.id
    /\ StoredTasks(last.before)[2] # StoredTasks(localStorage)[2]

\* C3 (round trip): right after saveTask(t), getTasks(t.userId) holds exactly
\* one entry with t's id, and that entry agrees with t on every field.
C3_RoundTrip ==
    last.op = "saveTask" =>
        LET t == last.task
            got == GetTasks(localStorage, t.userId)
            hits == {i \in 1..Len(got) : got[i].id = t.id}
        IN  /\ Cardinality(hits) = 1
            /\ \A i \in hits : SameTaskFields(got[i], t)

\* saveTask has just overwritten a stored task of another owner with a task
\* that has undefined fields, next to a task of a third id.
C3_Witness ==
    /\ last.op = "saveTask"
    /\ last.task.finishedTime = Undefined
    /\ \E i \in 1..Len(StoredTasks(last.before)) :
          /\ StoredTasks(last.before)[i].id = last.task.id
          /\ StoredTasks(last.before)[i].userId # last.task.userId
    /\ Len(StoredTasks(localStorage)) >= 2

\* C4 (owner isolation): after deleteAllTasks(u) the store holds no task of
\* u, the tasks of the other owners are what they were, in the order they
\* were in, and the users and notifications blobs are what they were.
C4_OwnerIsolation ==
    last.op = "deleteAllTasks" =>
        LET u == last.userId
            pre == StoredTasks(last.before)
            post == StoredTasks(localStorage)
            NotOfU(t) == t.userId # u
        IN  /\ \A i \in 1..Len(post) : post[i].userId # u
            /\ post = SelectSeq(pre, NotOfU)
            /\ localStorage[USERS_STORAGE_KEY] = last.before[USERS_STORAGE_KEY]
            /\ localStorage[NOTIFICATIONS_STORAGE_KEY]
                 = last.before[NOTIFICATIONS_STORAGE_KEY]

\* deleteAllTasks(u) has just run on a store where a task of another owner
\* stood between two tasks of u, with users and notifications stored.
C4_Witness ==
    /\ last.op = "deleteAllTasks"
    /\ Len(StoredTasks(last.before)) = 3
    /\ StoredTasks(last.before)[1].userId = last.userId
    /\ StoredTasks(last.before)[2].userId # last.userId
    /\ StoredTasks(last.before)[3].userId = last.userId
    /\ Len(StoredTasks(localStorage)) = 1
    /\ localStorage[USERS_STORAGE_KEY] = SomeUsers
    /\ localStorage[NOTIFICATIONS_STORAGE_KEY] = SomeNotifications

\* C15: deleteTask(taskId) leaves the stored tasks with another id as and
\* where they were and no task with that id, so nothing changes when no task
\* has the id; on a tasks blob that JSON.parse rejects or that is not an
\* array it leaves localStorage as it was; it never touches the other blobs.
C15_DeleteTask ==
    last.op = "deleteTask" =>
        LET pre == StoredTasks(last.before)
            post == StoredTasks(localStorage)
            OtherId(t) == t.id # last.taskId
        IN  /\ post = SelectSeq(pre, OtherId)
            /\ last.before[TASKS_STORAGE_KEY].kind \in {"unparseable", "notarray"}
                  => localStorage = last.before
            /\ localStorage[USERS_STORAGE_KEY] = last.before[USERS_STORAGE_KEY]
            /\ localStorage[NOTIFICATIONS_STORAGE_KEY]
                 = last.before[NOTIFICATIONS_STORAGE_KEY]

\* C15, the case: deleteTask has removed the middle one of three stored
\* tasks.
C15_Witness ==
    /\ last.op = "deleteTask"
    /\ Len(StoredTasks(last.before)) = 3
    /\ StoredTasks(last.before)[2].id = last.taskId
    /\ StoredTasks(localStorage)
         = <<StoredTasks(last.before)[1], StoredTasks(last.before)[3]>>

-----------------------------------------------------------------------------
(* SpecAuth: registration and login.  register and login await their delay *)
(* first and then run without another await, so the body of a call is one  *)
(* step; Date.now() is read in that step.                                  *)

\* Date.now()
NowMs == clock * TickMs

InitAuth ==
    /\ localStorage \in
         {EmptyStorage,
          [EmptyStorage EXCEPT ![USERS_STORAGE_KEY] = Unparseable],
          [EmptyStorage EXCEPT ![USERS_STORAGE_KEY] = NotArray,
                               ![NOTIFICATIONS_STORAGE_KEY] = SomeNotifications]}
    /\ clock = 0
    /\ last = NoCall
    /\ NoApp

\* What the caller of register or login gets: the user, or the error.
Outcome(r) == [f \in DOMAIN r \ {"ls"} |-> r[f]]

Tick ==
    /\ clock < MaxClock
    /\ clock' = clock + 1
    /\ UNCHANGED <<localStorage, last, stateVars, viewVars, asyncVars>>

RegisterCall ==
    \E username \in Usernames, password \in Passwords :
        LET r == Register(localStorage, username, password, NowMs)
        IN  /\ localStorage' = r.ls
            /\ last' = [op |-> "register", username |-> username,
                        password |-> password, before |-> localStorage,
                        result |-> Outcome(r)]
            /\ UNCHANGED <<clock, stateVars, viewVars, asyncVars>>

\* The credentials a login is called with: a username and a password for the
\* password-based provider, none for the federated ones.
CredentialsOf(provider) ==
    IF provider \in {"google", "github"}
    THEN {NoCredentials}
    ELSE [username : Usernames, password : Passwords] \cup {NoCredentials}

LoginCall ==
    \E provider \in Providers :
        \E credentials \in CredentialsOf(provider) :
            LET r == Login(localStorage, provider, credentials)
            IN  /\ localStorage' = r.ls
                /\ last' = [op |-> "login", provider |-> provider,
                            credentials |-> credentials, before |-> localStorage,
                            result |-> Outcome(r)]
                /\ UNCHANGED <<clock, stateVars, viewVars, asyncVars>>

NextAuth ==
    \/ Tick
    \/ RegisterCall
    \/ LoginCall

SpecAuth == InitAuth /\ [][NextAuth]_vars

\* The credential records a reader of the store sees.
StoredUsers(ls) == ItemsOrEmpty(ls[USERS_STORAGE_KEY])

\* C7 (username taken): register with a username that a stored record has
\* fails with the username-taken condition, whatever the password, and
\* leaves localStorage as it was; and no two stored records share a username.
C7_UsernameTaken ==
    /\ (/\ last.op = "register"
        /\ \E i \in 1..Len(StoredUsers(last.before)) :
              StoredUsers(last.before)[i].username = last.username)
       => /\ ~last.result.ok
          /\ last.result.error = UsernameTaken
          /\ localStorage = last.before
    /\ \A i, j \in 1..Len(StoredUsers(localStorage)) :
          StoredUsers(localStorage)[i].username = StoredUsers(localStorage)[j].username
            => i = j

\* register has just been refused for a stored username given with a
\* password other than the stored one.
C7_Witness ==
    /\ last.op = "register"
    /\ ~last.result.ok
    /\ \E i \in 1..Len(StoredUsers(localStorage)) :
          /\ StoredUsers(localStorage)[i].username = last.username
          /\ StoredUsers(localStorage)[i].password # last.password
    /\ Len(StoredUsers(localStorage)) = 2

UserFields == {"id", "name", "email", "avatar", "provider"}

\* C8 (login): a password login succeeds exactly when a stored record has
\* both the username and the password given, and fails with the
\* invalid-credentials condition otherwise; the user it returns has the id,
\* name, email, avatar and provider of that record and no other field; and
\* no login of any provider changes localStorage.
C8_Login ==
    last.op = "login" =>
        /\ localStorage = last.before
        /\ last.provider \notin {"google", "github"} =>
            LET users == StoredUsers(last.before)
                hits == {i \in 1..Len(users) :
                            /\ users[i].username = last.credentials.username
                            /\ users[i].password = last.credentials.password}
            IN  /\ last.result.ok <=> hits # {}
                /\ ~last.result.ok => last.result.error = InvalidCredentials
                /\ last.result.ok =>
                     /\ DOMAIN last.result.user = UserFields
                     /\ \E i \in hits :
                           \A f \in UserFields : last.result.user[f] = users[i][f]

\* A password login has just succeeded with two records stored, and the
\* record it matched is the second.
C8_Witness ==
    /\ last.op = "login"
    /\ last.provider = "credentials"
    /\ last.result.ok
    /\ Len(StoredUsers(localStorage)) = 2
    /\ StoredUsers(localStorage)[2].username = last.credentials.username

\* C9 (distinct ids): the ids of the stored credential records are pairwise
\* distinct.
C9_DistinctIds ==
    \A i, j \in 1..Len(StoredUsers(localStorage)) :
        StoredUsers(localStorage)[i].id = StoredUsers(localStorage)[j].id => i = j

-----------------------------------------------------------------------------
(* Strings: toLowerCase and includes, over a three-letter alphabet *)

Alphabet == {"a", "b", "B"}

\* toLowerCase of one letter.
LowerChar(c) == IF c = "B" THEN "b" ELSE c

\* The strings over the alphabet of length n or less.
RECURSIVE StringsUpTo(_)
StringsUpTo(n) ==
    IF n = 0 THEN {""}
    ELSE StringsUpTo(n - 1) \cup {c \o r : c \in Alphabet, r \in StringsUpTo(n - 1)}

AllStrings == StringsUpTo(MaxTextLen)

\* The first letter of a string that is not empty, and the rest of it.
FirstChar(str) == CHOOSE x \in Alphabet : \E r \in AllStrings : str = x \o r
RestOf(str) == CHOOSE r \in AllStrings : str = FirstChar(str) \o r

RECURSIVE LowerOf(_)
LowerOf(str) ==
    IF str = "" THEN "" ELSE LowerChar(FirstChar(str)) \o LowerOf(RestOf(str))

\* toLowerCase and the contiguous runs of every string, computed once.
LowerTable == [str \in AllStrings |-> LowerOf(str)]

RunsTable ==
    [str \in AllStrings |->
        {sub \in AllStrings : \E before, after \in AllStrings :
            str = before \o sub \o after}]

\* String.prototype.toLowerCase: letter by letter.
ToLowerCase(str) == LowerTable[str]

\* String.prototype.includes: sub occurs in str as a contiguous run.
Includes(str, sub) == sub \in RunsTable[str]

-----------------------------------------------------------------------------
(* The derived view: filteredAndSortedTasks *)

\* The test of the search filter; lower is the lowered search text.  A
\* description that is absent or empty is falsy and is not searched.
SearchHit(t, lower) ==
    \/ Includes(ToLowerCase(t.text), lower)
    \/ /\ Get(t, "description") \notin {Undefined, ""}
       /\ Includes(ToLowerCase(Get(t, "description")), lower)

\* The comparator of the sort.
Compare(a, b, by) ==
    CASE by = "deadline-asc" -> GetTime(a.deadline) - GetTime(b.deadline)
      [] by = "deadline-desc" -> GetTime(b.deadline) - GetTime(a.deadline)
      [] by = "created-asc" -> GetTime(a.createdAt) - GetTime(b.createdAt)
      [] by = "created-desc" -> GetTime(b.createdAt) - GetTime(a.createdAt)
      [] OTHER -> 0

\* A variant of the memo that searches the title only.
MemoTitleOnly(taskList, query, status, by) ==
    LET Hit(t) == Includes(ToLowerCase(t.text), ToLowerCase(query))
        IsPending(t) == t.status = "pending"
        IsDone(t) == t.status = "done"
        Cmp(a, b) == Compare(a, b, by)
        searched == IF query # "" THEN Filter(taskList, Hit) ELSE taskList
        filtered ==
            IF status = "pending" THEN Filter(searched, IsPending)
            ELSE IF status = "done" THEN Filter(searched, IsDone)
            ELSE searched
    IN  [result |-> StableSort(filtered, Cmp), tasks |-> taskList]

\* The body of the useMemo: the array it returns, and the tasks array as it
\* is afterwards (the body copies it before it filters and sorts).
\* A variant of the memo that sorts the filtered list from its end.
MemoReversed(taskList, query, status, by) ==
    LET Hit(t) == SearchHit(t, ToLowerCase(query))
        IsPending(t) == t.status = "pending"
        IsDone(t) == t.status = "done"
        Cmp(a, b) == Compare(a, b, by)
        searched == IF query # "" THEN Filter(taskList, Hit) ELSE taskList
        filtered ==
            IF status = "pending" THEN Filter(searched, IsPending)
            ELSE IF status = "done" THEN Filter(searched, IsDone)
            ELSE searched
        reversed == [k \in 1..Len(filtered) |-> filtered[Len(filtered) + 1 - k]]
    IN  [result |-> StableSort(reversed, Cmp), tasks |-> taskList]

Memo(taskList, query, status, by) ==
    LET Hit(t) == SearchHit(t, ToLowerCase(query))
        IsPending(t) == t.status = "pending"
        IsDone(t) == t.status = "done"
        Cmp(a, b) == Compare(a, b, by)
        copy == taskList
        searched == IF query # "" THEN Filter(copy, Hit) ELSE copy
        filtered ==
            IF status = "pending" THEN Filter(searched, IsPending)
            ELSE IF status = "done" THEN Filter(searched, IsDone)
            ELSE searched
    IN  [result |-> StableSort(filtered, Cmp), tasks |-> taskList]

-----------------------------------------------------------------------------
(* SpecView: the derived view of a task list under every search text,      *)
(* filter and sort key.                                                    *)

\* Tasks of one user as they are in the list: titles and descriptions in
\* both cases, an absent and an empty description, deadlines and creation
\* times that tie (L1 and T1 are two spellings of one instant).
ViewTasks ==
    {[id |-> "v1", userId |-> "u1", text |-> "aB", deadline |-> ToLocalString(2),
      status |-> "pending", createdAt |-> ToISOString(0)],
     [id |-> "v2", userId |-> "u1", text |-> "a", description |-> "aB",
      deadline |-> ToLocalString(1), status |-> "done",
      finishedTime |-> ToISOString(1), createdAt |-> ToISOString(1)],
     [id |-> "v3", userId |-> "u1", text |-> "b", description |-> "",
      deadline |-> ToISOString(1), status |-> "pending", finishedTime |-> Null,
      createdAt |-> ToISOString(1)],
     [id |-> "v4", userId |-> "u1", text |-> "Ba", description |-> "a",
      deadline |-> ToLocalString(0), status |-> "done",
      finishedTime |-> ToISOString(2), createdAt |-> ToISOString(2)],
     [id |-> "v5", userId |-> "u1", text |-> "B", deadline |-> ToLocalString(2),
      status |-> "pending", createdAt |-> ToISOString(0)]}

\* The task lists: up to MaxViewLen of these tasks, each at most once.
ViewLists ==
    {l \in UNION {[1..n -> ViewTasks] : n \in 0..MaxViewLen} :
        \A i, j \in 1..Len(l) : l[i] = l[j] => i = j}

SearchTexts == {"", "a", "B", "aB"}
FilterOptions == {"all", "pending", "done"}
SortOptions == {"deadline-asc", "deadline-desc", "created-desc", "created-asc"}

\* A render: the memo is computed again from the state, and leaves the task
\* list as its body leaves it.
Render(taskList, query, status, by) ==
    /\ filteredAndSortedTasks' = Memo(taskList, query, status, by).result
    /\ tasks' = Memo(taskList, query, status, by).tasks

InitView ==
    /\ localStorage = EmptyStorage
    /\ clock = 0
    /\ last = NoCall
    /\ user = "u1"
    /\ notifications = <<>>
    /\ tasks \in ViewLists
    /\ searchQuery = ""
    /\ filter = "all"
    /\ sortBy = "deadline-asc"
    /\ filteredAndSortedTasks = Memo(tasks, "", "all", "deadline-asc").result
    /\ NoAsync

SetSearchQuery ==
    \E q \in SearchTexts :
        /\ searchQuery' = q
        /\ Render(tasks, q, filter, sortBy)
        /\ UNCHANGED <<serviceVars, user, notifications, filter, sortBy, asyncVars>>

SetFilter ==
    \E f \in FilterOptions :
        /\ filter' = f
        /\ Render(tasks, searchQuery, f, sortBy)
        /\ UNCHANGED <<serviceVars, user, notifications, searchQuery, sortBy, asyncVars>>

SetSortBy ==
    \E by \in SortOptions :
        /\ sortBy' = by
        /\ Render(tasks, searchQuery, filter, by)
        /\ UNCHANGED <<serviceVars, user, notifications, searchQuery, filter, asyncVars>>

NextView ==
    \/ SetSearchQuery
    \/ SetFilter
    \/ SetSortBy

SpecView == InitView /\ [][NextView]_vars

\* The sort key of a task under a sort option, and whether the option sorts
\* descending.
SortKey(t, by) ==
    IF by \in {"deadline-asc", "deadline-desc"}
    THEN GetTime(t.deadline) ELSE GetTime(t.createdAt)

Descending(by) == by \in {"deadline-desc", "created-desc"}

\* The search predicate as the specification words it: an empty search text
\* matches everything; otherwise the text, without regard to case, occurs in
\* the title or in a description that is present.
MatchesSearch(t, query) ==
    \/ query = ""
    \/ Includes(ToLowerCase(t.text), ToLowerCase(query))
    \/ /\ "description" \in DOMAIN t
       /\ Includes(ToLowerCase(t.description), ToLowerCase(query))

MatchesStatus(t, status) == status = "all" \/ t.status = status

\* The view holds each task of the list that matches the search text and the
\* status filter exactly once and no other task, in the order of the sort key.
ViewIsFilteredAndSorted ==
    LET view == filteredAndSortedTasks
        n == Len(view)
    IN  /\ \A i \in 1..n : \E k \in 1..Len(tasks) : view[i] = tasks[k]
        /\ \A i, j \in 1..n : view[i] = view[j] => i = j
        /\ \A k \in 1..Len(tasks) :
              (\E i \in 1..n : view[i] = tasks[k])
                <=> MatchesSearch(tasks[k], searchQuery) /\ MatchesStatus(tasks[k], filter)
        /\ \A i, j \in 1..n :
              i < j => IF Descending(sortBy)
                       THEN SortKey(view[i], sortBy) >= SortKey(view[j], sortBy)
                       ELSE SortKey(view[i], sortBy) <= SortKey(view[j], sortBy)

\* C10 (filter composition): in every state the view is the sub-collection
\* of the task list that matches the search text and the status filter,
\* ordered by the sort key; and no computation of the view changes the task
\* list.
C10_FilterComposition ==
    /\ []ViewIsFilteredAndSorted
    /\ [][tasks' = tasks]_vars

\* A view of two tasks out of three, found by a search in capitals that hits
\* one title and one description, sorted against the order of the list.
C10_Witness ==
    /\ Len(tasks) = 3
    /\ searchQuery = "B"
    /\ filter = "done"
    /\ sortBy = "created-desc"
    /\ Len(filteredAndSortedTasks) = 2
    /\ filteredAndSortedTasks[1] = tasks[3]
    /\ filteredAndSortedTasks[2] = tasks[1]
    /\ ~Includes(ToLowerCase(filteredAndSortedTasks[2].text), "b")

\* The place of a task in the task list.
PlaceInTasks(t) == CHOOSE k \in 1..Len(tasks) : tasks[k] = t

\* C11 (sort stability): under each of the four sort keys, two tasks of the
\* view with equal sort-key values are in the view in the order they have in
\* the task list.
C11_SortStability ==
    \A i, j \in 1..Len(filteredAndSortedTasks) :
        (/\ i < j
         /\ SortKey(filteredAndSortedTasks[i], sortBy)
              = SortKey(filteredAndSortedTasks[j], sortBy))
        => PlaceInTasks(filteredAndSortedTasks[i]) < PlaceInTasks(filteredAndSortedTasks[j])

\* C11, the case: a descending sort moves a task in front of two tasks that
\* tie, the two are spelled differently, and they keep the order of the list.
C11_Witness ==
    /\ Len(tasks) = 3
    /\ sortBy = "deadline-desc"
    /\ Len(filteredAndSortedTasks) = 3
    /\ filteredAndSortedTasks[1] = tasks[3]
    /\ filteredAndSortedTasks[2] = tasks[1]
    /\ filteredAndSortedTasks[3] = tasks[2]
    /\ tasks[1].deadline # tasks[2].deadline
    /\ GetTime(tasks[1].deadline) = GetTime(tasks[2].deadline)

-----------------------------------------------------------------------------
(* The App controller.                                                     *)
(*                                                                         *)
(* A handler runs to its first await in one step.  A call that awaits a    *)
(* timer (loadData, handleSaveTask, handleToggleStatus) is put in inflight *)
(* and completes in a later step: the service writes the blob and the      *)
(* handler sets the state in one step, because nothing but promise         *)
(* continuations runs between the two.  checkDeadlines awaits service      *)
(* calls that have no timer: it is suspended at each of them and resumed   *)
(* before any timer or user event is served, so it interleaves only with   *)
(* other runs of checkDeadlines.  The state set in one step is rendered    *)
(* once (state updates are batched), and the effects of a render run       *)
(* before the next timer or user event.                                    *)

\* The users that log in: the two federated identities of login.
AppUserIds ==
    {Login(EmptyStorage, "google", NoCredentials).user.id,
     Login(EmptyStorage, "github", NoCredentials).user.id}

\* The deadlines the task form passes to handleSaveTask.
Deadlines == {ToLocalString(0), ToLocalString(2)}

\* const oneDay
OneDay == 24 * 60 * 60 * 1000

\* The calls that wait for a timer, and the runs of checkDeadlines.
TimedCalls == {c \in BagToSet(inflight) : c.kind # "checkDeadlines"}
Evaluators == {c \in BagToSet(inflight) : c.kind = "checkDeadlines"}

CountOf(calls) ==
    LET RECURSIVE Sum(_)
        Sum(S) == IF S = {} THEN 0
                  ELSE LET c == CHOOSE x \in S : TRUE
                       IN  CopiesIn(c, inflight) + Sum(S \ {c})
    IN  Sum(calls)

\* No effect and no promise continuation is waiting: the next timer or user
\* event can be served.
Settled == ~effectDue /\ Evaluators = {}

Without(call) == inflight (-) SetToBag({call})
With(bag, call) == bag (+) SetToBag({call})

\* crypto.randomUUID() for a task: the n-th id given out.
TaskUuid(n) == "task-" \o ToString(n)

\* crypto.randomUUID() for a notification: an id that no notification has.
\* A notification object lives on only in the blob (and in copies read from
\* it), nothing is ever removed from the blob, and every stored notification
\* got its id here: the ids in use are those up to the size of the blob.
NotifUuid(ls) ==
    "notif-" \o ToString(Len(ItemsOrEmpty(ls[NOTIFICATIONS_STORAGE_KEY])) + 1)

\* tasks.find(t => t.id === id), as a set of at most one task.
FindTask(taskList, id) ==
    LET HasId(t) == t.id = id
        idx == FindIndex(taskList, HasId)
    IN  IF idx = 0 THEN {} ELSE {taskList[idx]}

\* A variant of the classification that takes a deadline exactly one day
\* ahead as upcoming.
ClassifyInclusive(task, nowMs) ==
    LET diff == GetTime(task.deadline) - nowMs
    IN  IF diff < 0 THEN "overdue"
        ELSE IF diff <= OneDay THEN "upcoming"
        ELSE Null

\* The classification of a deadline at the instant nowMs: Null for none.
Classify(task, nowMs) ==
    LET diff == GetTime(task.deadline) - nowMs
    IN  IF diff < 0 THEN "overdue"
        ELSE IF diff < OneDay THEN "upcoming"
        ELSE Null

\* The message of a notification (without the diacritics).
Message(task, type) ==
    IF type = "overdue"
    THEN "Cong viec " \o task.text \o " da qua han!"
    ELSE "Cong viec " \o task.text \o " sap den han (duoi 24h)."

\* notifications.some(n => n.taskId === task.id && n.type === type)
AlreadyNotified(notifs, task, type) ==
    \E i \in 1..Len(notifs) : notifs[i].taskId = task.id /\ notifs[i].type = type

\* Whether the loop of checkDeadlines calls addNotification for the j-th
\* task of the run's list.
Notifies(run, j) ==
    LET task == run.tasks[j]
        type == Classify(task, run.now)
    IN  /\ task.status # "done"
        /\ type # Null
        /\ ~AlreadyNotified(run.notifications, task, type)

\* The next task after position run.i for which the loop calls
\* addNotification; 0 when the loop ends without another call.
NextNotified(run) ==
    IF \E j \in (run.i + 1)..Len(run.tasks) : Notifies(run, j)
    THEN CHOOSE j \in (run.i + 1)..Len(run.tasks) :
            Notifies(run, j) /\ \A k \in (run.i + 1)..(j - 1) : ~Notifies(run, k)
    ELSE 0

\* The notification the loop builds for the j-th task.
NewNotification(run, j, uuid, nowTick) ==
    LET task == run.tasks[j]
        type == Classify(task, run.now)
    IN  [id |-> uuid, userId |-> run.userId, taskId |-> task.id,
         message |-> Message(task, type), type |-> type, isRead |-> JsFalse,
         createdAt |-> ToISOString(nowTick), emailSent |-> JsTrue]

\* A run of checkDeadlines at its start: what its closure holds.  History:
\* second says that the run follows a completed run with nothing in between,
\* wrote that its last call of addNotification has changed the blob.
NewRun ==
    [kind |-> "checkDeadlines", userId |-> user, tasks |-> tasks,
     notifications |-> notifications, now |-> clock * TickMs, i |-> 0,
     hasNewNotification |-> FALSE, phase |-> "loop", updatedNotifs |-> <<>>,
     second |-> justReloaded /\ Evaluators = {}, wrote |-> FALSE]

\* The suspended runs once another call has come between them.
Interrupted(bag) ==
    LET Unmark(c) == IF c.kind = "checkDeadlines"
                     THEN [c EXCEPT !.second = FALSE] ELSE c
    IN  BagOfAll(Unmark, bag)

\* checkDeadlines from position run.i to its next await or to its end;
\* others are the other suspended calls.
RunCheckDeadlines(run, others) ==
    LET j == NextNotified(run)
    IN  IF j # 0
        THEN \* await storageService.addNotification(newNotification)
             LET added == AddNotification(localStorage,
                              NewNotification(run, j, NotifUuid(localStorage), clock))
             IN  /\ localStorage' = added
                 /\ inflight' = With(others,
                       [run EXCEPT !.i = j, !.hasNewNotification = TRUE,
                                   !.wrote = (added # localStorage)])
        ELSE IF run.hasNewNotification
        THEN \* await storageService.getNotifications(user.id)
             /\ inflight' =
                  With(others, [run EXCEPT
                      !.phase = "reload", !.i = 0, !.tasks = <<>>,
                      !.notifications = <<>>,
                      !.updatedNotifs = GetNotifications(localStorage, run.userId)])
             /\ UNCHANGED localStorage
        ELSE /\ inflight' = others
             /\ UNCHANGED localStorage

\* The effect on [tasks, user]: it runs after a render that changed one of
\* them and calls checkDeadlines when a user is logged in and has tasks.
DeadlineEffect ==
    /\ effectDue
    /\ effectDue' = FALSE
    /\ IF user # Null /\ Len(tasks) > 0
       THEN RunCheckDeadlines(NewRun, Interrupted(inflight))
       ELSE UNCHANGED <<localStorage, inflight>>
    /\ justReloaded' = FALSE
    /\ UNCHANGED <<clock, last, stateVars, viewVars, taskSeq, toggleSeq, loginSeq>>

\* checkDeadlines called once more while tasks and user are what they were.
CheckDeadlinesAgain ==
    /\ ~effectDue
    /\ user # Null /\ Len(tasks) > 0
    /\ CountOf(Evaluators) < MaxEvaluators
    /\ RunCheckDeadlines(NewRun, Interrupted(inflight))
    /\ justReloaded' = FALSE
    /\ UNCHANGED <<clock, last, stateVars, viewVars, effectDue, taskSeq, toggleSeq,
                   loginSeq>>

\* A suspended run of checkDeadlines is resumed: after addNotification it goes
\* on with the loop, after getNotifications it sets the notification list.
ResumeCheckDeadlines ==
    \E run \in Evaluators :
        /\ ~effectDue
        /\ IF run.phase = "loop"
           THEN /\ RunCheckDeadlines(run, Without(run))
                /\ UNCHANGED <<notifications, justReloaded>>
           ELSE /\ notifications' = run.updatedNotifs
                /\ inflight' = Without(run)
                /\ justReloaded' = (CountOf(Evaluators) = 1)
                /\ UNCHANGED localStorage
        /\ UNCHANGED <<clock, last, user, tasks, viewVars, effectDue, taskSeq,
                       toggleSeq, loginSeq>>

\* handleLogin, called by the login screen when login (600 ms) has returned:
\* every timed call started before (at most 300 ms) has completed.  The
\* effect on [user] calls loadData, which calls getTasks and getNotifications
\* at once; getNotifications has no delay and reads the blob in the call.
HandleLogin ==
    \E u \in AppUserIds :
        /\ Settled
        /\ user = Null
        /\ TimedCalls = {}
        /\ user' = u
        /\ inflight' = With(inflight,
              [kind |-> "loadData", userId |-> u,
               notifsData |-> GetNotifications(localStorage, u)])
        /\ effectDue' = TRUE
        /\ loginSeq < MaxLogins
        /\ loginSeq' = loginSeq + 1
        /\ justReloaded' = FALSE
        /\ UNCHANGED <<serviceVars, tasks, notifications, viewVars, taskSeq, toggleSeq>>

\* loadData after its await: setTasks and setNotifications.
LoadDataDone ==
    \E call \in TimedCalls :
        /\ Settled
        /\ call.kind = "loadData"
        /\ Render(GetTasks(localStorage, call.userId), searchQuery, filter, sortBy)
        /\ notifications' = call.notifsData
        /\ inflight' = Without(call)
        /\ effectDue' = TRUE
        /\ justReloaded' = FALSE
        /\ UNCHANGED <<serviceVars, user, searchQuery, filter, sortBy, taskSeq, toggleSeq,
                       loginSeq>>

\* handleLogout, and the effect on [user] that empties both lists.
HandleLogout ==
    /\ Settled
    /\ user # Null
    /\ user' = Null
    /\ Render(<<>>, searchQuery, filter, sortBy)
    /\ notifications' = <<>>
    /\ justReloaded' = FALSE
    /\ UNCHANGED <<serviceVars, searchQuery, filter, sortBy, inflight, effectDue,
                   taskSeq, toggleSeq, loginSeq>>

\* The task handleSaveTask builds; id is Undefined for a new task.
NewTask(id, deadline, uuid, nowTick) ==
    LET found == FindTask(tasks, id)
        Of(f, default) ==
            IF found = {} THEN default
            ELSE LET t == CHOOSE x \in found : TRUE
                 IN  IF Get(t, f) \in {Undefined, Null, ""} THEN default ELSE t[f]
    IN  [id |-> IF id = Undefined THEN uuid ELSE id,
         userId |-> user,
         text |-> "a",
         description |-> "",
         deadline |-> deadline,
         status |-> IF id = Undefined THEN "pending" ELSE Of("status", "pending"),
         finishedTime |->
            IF id = Undefined \/ found = {} THEN Undefined
            ELSE Get(CHOOSE x \in found : TRUE, "finishedTime"),
         createdAt |-> IF id = Undefined THEN ToISOString(nowTick)
                       ELSE Of("createdAt", ToISOString(nowTick))]

\* The editingTask of the form: none, the form is opened for a new task.
FormTaskIds == {Undefined}

\* handleSaveTask up to its await.
HandleSaveTask ==
    \E deadline \in Deadlines :
        \E id \in FormTaskIds :
            /\ Settled
            /\ user # Null
            /\ CountOf(TimedCalls) < MaxInFlight
            /\ id = Undefined => taskSeq < MaxTaskIds
            /\ taskSeq' = IF id = Undefined THEN taskSeq + 1 ELSE taskSeq
            /\ inflight' = With(inflight,
                  [kind |-> "handleSaveTask",
                   newTask |-> NewTask(id, deadline, TaskUuid(taskSeq + 1), clock)])
            /\ justReloaded' = FALSE
            /\ UNCHANGED <<serviceVars, stateVars, viewVars, effectDue, toggleSeq,
                           loginSeq>>

\* The updater of handleSaveTask: replace the listed task or add the new one.
SetTasksUpsert(prev, newTask) == Upsert(prev, newTask)

\* handleSaveTask after its await: saveTask has written, setTasks follows.
SaveTaskDone ==
    \E call \in TimedCalls :
        /\ Settled
        /\ call.kind = "handleSaveTask"
        /\ localStorage' = SaveTask(localStorage, call.newTask)
        /\ Render(SetTasksUpsert(tasks, call.newTask), searchQuery, filter, sortBy)
        /\ inflight' = Without(call)
        /\ effectDue' = TRUE
        /\ justReloaded' = FALSE
        /\ UNCHANGED <<clock, last, user, notifications, searchQuery, filter,
                       sortBy, taskSeq, toggleSeq, loginSeq>>

\* The task handleToggleStatus builds from the listed one.
ToggledTask(task, nowTick) ==
    LET newStatus == IF task.status = "pending" THEN "done" ELSE "pending"
        finishedTime == IF newStatus = "done" THEN ToISOString(nowTick) ELSE Null
    IN  [f \in DOMAIN task \cup {"finishedTime"} |->
            IF f = "status" THEN newStatus
            ELSE IF f = "finishedTime" THEN finishedTime
            ELSE task[f]]

\* handleToggleStatus up to its await; the list and its buttons are rendered
\* only while a user is logged in.
HandleToggleStatus ==
    \E k \in 1..Len(tasks) :
        /\ Settled
        /\ user # Null
        /\ CountOf(TimedCalls) < MaxInFlight
        /\ toggleSeq < MaxToggles
        /\ toggleSeq' = toggleSeq + 1
        /\ inflight' = With(inflight,
              [kind |-> "handleToggleStatus", id |-> tasks[k].id,
               updatedTask |->
                  ToggledTask(CHOOSE t \in FindTask(tasks, tasks[k].id) : TRUE, clock)])
        /\ justReloaded' = FALSE
        /\ UNCHANGED <<serviceVars, stateVars, viewVars, effectDue, taskSeq, loginSeq>>

\* handleToggleStatus after its await: saveTask has written, setTasks follows.
ToggleStatusDone ==
    \E call \in TimedCalls :
        /\ Settled
        /\ call.kind = "handleToggleStatus"
        /\ localStorage' = SaveTask(localStorage, call.updatedTask)
        /\ Render([k \in 1..Len(tasks) |->
                      IF tasks[k].id = call.id THEN call.updatedTask ELSE tasks[k]],
                  searchQuery, filter, sortBy)
        /\ inflight' = Without(call)
        /\ effectDue' = TRUE
        /\ justReloaded' = FALSE
        /\ UNCHANGED <<clock, last, user, notifications, searchQuery, filter,
                       sortBy, taskSeq, toggleSeq, loginSeq>>

\* Time passes between two events.
TickApp ==
    /\ Settled
    /\ clock < MaxAppClock
    /\ clock' = clock + 1
    /\ justReloaded' = FALSE
    /\ UNCHANGED <<localStorage, last, stateVars, viewVars, inflight, effectDue,
                   taskSeq, toggleSeq, loginSeq>>

InitApp ==
    /\ localStorage = EmptyStorage
    /\ clock = 0
    /\ last = NoCall
    /\ NoApp

NextApp ==
    \/ HandleLogin
    \/ LoadDataDone
    \/ HandleLogout
    \/ HandleSaveTask
    \/ SaveTaskDone
    \/ HandleToggleStatus
    \/ ToggleStatusDone
    \/ DeadlineEffect
    \/ CheckDeadlinesAgain
    \/ ResumeCheckDeadlines
    \/ TickApp

SpecApp == InitApp /\ [][NextApp]_vars

\* The notifications of the blob.
StoredNotifications == ItemsOrEmpty(localStorage[NOTIFICATIONS_STORAGE_KEY])

\* The stored notifications of a user for a task and a type.
StoredFor(userId, taskId, type) ==
    {i \in 1..Len(StoredNotifications) :
        /\ StoredNotifications[i].userId = userId
        /\ StoredNotifications[i].taskId = taskId
        /\ StoredNotifications[i].type = type}

\* C1: in every reachable state the blob holds at most one notification for
\* each (userId, taskId, type), whatever the runs of checkDeadlines, their
\* overlap and the age of the list they test; a call of addNotification with
\* a stored triple leaves the one notification.
C1_TripleUnique ==
    \A i, j \in 1..Len(StoredNotifications) :
        (/\ StoredNotifications[i].userId = StoredNotifications[j].userId
         /\ StoredNotifications[i].taskId = StoredNotifications[j].taskId
         /\ StoredNotifications[i].type = StoredNotifications[j].type) => i = j

\* C1, the case: a run whose list did not hold the triple has called
\* addNotification with a stored triple, and one notification is stored.
C1_Witness ==
    \E run \in Evaluators :
        /\ run.phase = "loop"
        /\ run.i > 0
        /\ ~run.wrote
        /\ Cardinality(StoredFor(run.userId, run.tasks[run.i].id,
                                 Classify(run.tasks[run.i], run.now))) = 1

\* C5: a run of checkDeadlines that follows a completed run (its reload
\* included) with the same tasks, the same time and nothing in between adds
\* no notification to the blob.
C5_Idempotent ==
    \A run \in Evaluators : ~(run.second /\ run.wrote)

\* C6: a task never has two stored notifications of the same kind: one
\* 'upcoming' while its deadline is ahead, one 'overdue' once it has passed,
\* and no more whatever runs follow.
C6_OnePerKind ==
    \A i, j \in 1..Len(StoredNotifications) :
        (/\ StoredNotifications[i].taskId = StoredNotifications[j].taskId
         /\ StoredNotifications[i].type = StoredNotifications[j].type) => i = j

\* C16 (logout clears the in-memory state): whenever no user is logged in,
\* the task list and the notification list are empty, whatever calls started
\* before the logout complete after it.
C16_LogoutClears ==
    user = Null => tasks = <<>> /\ notifications = <<>>

-----------------------------------------------------------------------------
(* SpecNotif: the notification operations of the storage service, and      *)
(* getTasks, over blobs that are absent, corrupt or written by the         *)
(* service.  None of the notification operations awaits: the body of a     *)
(* call is one step.                                                       *)

NotifTaskIds == {"t1"}
NotifTypes == {"overdue", "upcoming"}

\* Notification objects as checkDeadlines builds them, with an id no stored
\* notification has.
NotifArgs(ls) ==
    {[id |-> NotifUuid(ls), userId |-> u, taskId |-> t, message |-> "m",
      type |-> k, isRead |-> JsFalse, createdAt |-> ToISOString(c),
      emailSent |-> JsTrue] :
        u \in UserIds, t \in NotifTaskIds, k \in NotifTypes, c \in 0..1}

\* The ids crypto.randomUUID() has given to notifications.
NotifIds == {"notif-" \o ToString(n) : n \in 1..MaxNotifs}

\* A tasks blob the program has written before: a task of each of two users.
SomeTasks ==
    SaveTask(SaveTask(EmptyStorage,
        [id |-> "t1", userId |-> "u1", text |-> "a", deadline |-> ToLocalString(1),
         status |-> "pending", createdAt |-> ToISOString(0)]),
        [id |-> "t2", userId |-> "u2", text |-> "b", deadline |-> ToLocalString(1),
         status |-> "pending", createdAt |-> ToISOString(0)])[TASKS_STORAGE_KEY]

\* The two blobs start absent, as text JSON.parse rejects, or as the JSON of
\* a value that is not an array; or the tasks are as the program wrote them.
InitNotif ==
    /\ localStorage \in
         {[EmptyStorage EXCEPT ![TASKS_STORAGE_KEY] = SomeTasks],
          [EmptyStorage EXCEPT ![TASKS_STORAGE_KEY] = SomeTasks,
                               ![NOTIFICATIONS_STORAGE_KEY] = NotArray],
          [EmptyStorage EXCEPT ![NOTIFICATIONS_STORAGE_KEY] = Unparseable],
          [EmptyStorage EXCEPT ![TASKS_STORAGE_KEY] = Unparseable,
                               ![NOTIFICATIONS_STORAGE_KEY] = Unparseable],
          [EmptyStorage EXCEPT ![TASKS_STORAGE_KEY] = NotArray,
                               ![NOTIFICATIONS_STORAGE_KEY] = Unparseable]}
    /\ clock = 0
    /\ last = NoCall
    /\ NoApp

GetNotificationsCall ==
    \E userId \in UserIds :
        /\ last' = [op |-> "getNotifications", userId |-> userId,
                    before |-> localStorage,
                    result |-> GetNotifications(localStorage, userId)]
        /\ UNCHANGED <<localStorage, clock, stateVars, viewVars, asyncVars>>

AddNotificationCall ==
    \E notification \in NotifArgs(localStorage) :
        /\ Len(ItemsOrEmpty(localStorage[NOTIFICATIONS_STORAGE_KEY])) < MaxNotifs
        /\ localStorage' = AddNotification(localStorage, notification)
        /\ last' = [op |-> "addNotification", notification |-> notification,
                    before |-> localStorage]
        /\ UNCHANGED <<clock, stateVars, viewVars, asyncVars>>

MarkNotificationReadCall ==
    \E notificationId \in NotifIds :
        /\ localStorage' = MarkNotificationRead(localStorage, notificationId)
        /\ last' = [op |-> "markNotificationRead",
                    notificationId |-> notificationId, before |-> localStorage]
        /\ UNCHANGED <<clock, stateVars, viewVars, asyncVars>>

MarkAllNotificationsReadCall ==
    \E userId \in UserIds :
        /\ localStorage' = MarkAllNotificationsRead(localStorage, userId)
        /\ last' = [op |-> "markAllNotificationsRead", userId |-> userId,
                    before |-> localStorage]
        /\ UNCHANGED <<clock, stateVars, viewVars, asyncVars>>

NextNotif ==
    \/ GetNotificationsCall
    \/ AddNotificationCall
    \/ MarkNotificationReadCall
    \/ MarkAllNotificationsReadCall
    \/ GetTasksCall

SpecNotif == InitNotif /\ [][NextNotif]_vars

\* The notifications array a reader of the store sees.
StoredNotifs(ls) == ItemsOrEmpty(ls[NOTIFICATIONS_STORAGE_KEY])

\* C12: getNotifications(userId) returns each stored notification of that
\* userId once and nothing else, the most recently created first, and leaves
\* localStorage as it was.
C12_GetNotifications ==
    last.op = "getNotifications" =>
        LET pre == StoredNotifs(last.before)
            got == last.result
            owned == {i \in 1..Len(pre) : pre[i].userId = last.userId}
        IN  /\ Len(got) = Cardinality(owned)
            /\ \A i \in owned : \E k \in 1..Len(got) : got[k] = pre[i]
            /\ \A k \in 1..Len(got) : \E i \in owned : got[k] = pre[i]
            /\ \A k, l \in 1..Len(got) :
                  k < l => GetTime(got[k].createdAt) >= GetTime(got[l].createdAt)
            /\ localStorage = last.before

\* C12, the case: of three stored notifications the first and the last are
\* the user's, the last one created later, and the call returned the last
\* one first.
C12_Witness ==
    /\ last.op = "getNotifications"
    /\ Len(StoredNotifs(last.before)) = 3
    /\ StoredNotifs(last.before)[1].userId = last.userId
    /\ StoredNotifs(last.before)[2].userId # last.userId
    /\ StoredNotifs(last.before)[3].userId = last.userId
    /\ last.result = <<StoredNotifs(last.before)[3], StoredNotifs(last.before)[1]>>
    /\ GetTime(last.result[1].createdAt) > GetTime(last.result[2].createdAt)

\* C13 (corruption is read as empty): getTasks on a tasks blob, and
\* getNotifications on a notifications blob, that is absent, rejected by
\* JSON.parse or not an array returns the empty array for every userId and
\* leaves localStorage as it was.
C13_CorruptionReadsEmpty ==
    /\ (last.op = "getTasks" /\ last.before[TASKS_STORAGE_KEY].kind # "array")
          => last.result = <<>> /\ localStorage = last.before
    /\ (last.op = "getNotifications"
          /\ last.before[NOTIFICATIONS_STORAGE_KEY].kind # "array")
          => last.result = <<>> /\ localStorage = last.before

\* C13, the case: getNotifications has returned from a blob that JSON.parse
\* rejects, next to a tasks blob that is not an array.
C13_Witness ==
    /\ last.op = "getNotifications"
    /\ last.before[NOTIFICATIONS_STORAGE_KEY] = Unparseable
    /\ last.before[TASKS_STORAGE_KEY] = NotArray
    /\ last.result = <<>>

\* A notification as it is but for its read flag.
Unread(n) == [n EXCEPT !.isRead = JsFalse]

\* What markNotificationRead and markAllNotificationsRead have just done:
\* the array is what it was but for the read flag, which is true on the
\* notification with the id (on the notifications of the user) and what it
\* was on the others.
MarksOnlyItsTarget ==
    LET pre == StoredNotifs(last.before)
        post == StoredNotifs(localStorage)
    IN  /\ last.op = "markNotificationRead" =>
              /\ Len(post) = Len(pre)
              /\ \A i \in 1..Len(pre) :
                    post[i] = IF pre[i].id = last.notificationId
                              THEN [pre[i] EXCEPT !.isRead = JsTrue] ELSE pre[i]
        /\ last.op = "markAllNotificationsRead" =>
              /\ Len(post) = Len(pre)
              /\ \A i \in 1..Len(pre) :
                    post[i] = IF pre[i].userId = last.userId
                              THEN [pre[i] EXCEPT !.isRead = JsTrue] ELSE pre[i]

\* A step keeps every stored notification, with its id and its other fields,
\* and keeps a read flag that is true.
KeepsNotifications ==
    LET pre == StoredNotifs(localStorage)
        post == StoredNotifs(localStorage')
    IN  \A i \in 1..Len(pre) :
            \E j \in 1..Len(post) :
                /\ post[j].id = pre[i].id
                /\ Unread(post[j]) = Unread(pre[i])
                /\ pre[i].isRead = JsTrue => post[j].isRead = JsTrue

\* C18: a stored notification stays stored with all its fields but the read
\* flag unchanged, a read flag that is true stays true, markNotificationRead
\* sets the flag of the notification with the id only (of none when no
\* notification has it) and markAllNotificationsRead the flags of the
\* notifications of the user only.
C18_RetainedAndMonotonic ==
    /\ []MarksOnlyItsTarget
    /\ [][KeepsNotifications]_vars

\* C18, the case: of three stored notifications of two users, one read
\* before, markAllNotificationsRead has marked the other one of the user and
\* left the third unread.
C18_Witness ==
    /\ last.op = "markAllNotificationsRead"
    /\ Len(StoredNotifs(localStorage)) = 3
    /\ \E i, j, k \in 1..3 :
          /\ StoredNotifs(last.before)[i].isRead = JsTrue
          /\ StoredNotifs(last.before)[i].userId = last.userId
          /\ StoredNotifs(last.before)[j].isRead = JsFalse
          /\ StoredNotifs(last.before)[j].userId = last.userId
          /\ StoredNotifs(localStorage)[j].isRead = JsTrue
          /\ StoredNotifs(localStorage)[k].userId # last.userId
          /\ StoredNotifs(localStorage)[k].isRead = JsFalse

\* C20: the task list shows the change of a user action before its write
\* to the store has completed: while saveTask of handleSaveTask or of
\* handleToggleStatus is awaited, the task it writes is in the list.
C20_OptimisticUpdate ==
    \A call \in TimedCalls :
        /\ call.kind = "handleSaveTask" =>
              \E k \in 1..Len(tasks) : tasks[k] = call.newTask
        /\ call.kind = "handleToggleStatus" =>
              \E k \in 1..Len(tasks) : tasks[k] = call.updatedTask

\* C24: every stored notification has the userId of the task it refers to
\* (the stored task with its taskId).
C24_NotificationOwner ==
    \A i \in 1..Len(StoredNotifications) :
        \A j \in 1..Len(StoredTasks(localStorage)) :
            StoredTasks(localStorage)[j].id = StoredNotifications[i].taskId
                => StoredTasks(localStorage)[j].userId = StoredNotifications[i].userId

-----------------------------------------------------------------------------
(* SpecForm: the session and the task form, opened for a new task or on a   *)
(* listed task (editingTask), with the deadline evaluator behind them.      *)

\* handleSaveTask up to its await, the form opened on a listed task and
\* submitted with the deadline the task has.
HandleEditTask ==
    \E k \in 1..Len(tasks) :
        /\ Settled
        /\ user # Null
        /\ CountOf(TimedCalls) < MaxInFlight
        /\ inflight' = With(inflight,
              [kind |-> "handleSaveTask",
               newTask |-> NewTask(tasks[k].id, tasks[k].deadline, Undefined, clock)])
        /\ justReloaded' = FALSE
        /\ UNCHANGED <<serviceVars, stateVars, viewVars, effectDue, taskSeq,
                       toggleSeq, loginSeq>>

NextForm ==
    \/ HandleLogin
    \/ LoadDataDone
    \/ HandleLogout
    \/ HandleSaveTask
    \/ HandleEditTask
    \/ SaveTaskDone
    \/ DeadlineEffect
    \/ ResumeCheckDeadlines

SpecForm == InitApp /\ [][NextForm]_vars

\* A step leaves every stored task that keeps its id with its owner.
OwnerKept ==
    LET pre == StoredTasks(localStorage)
        post == StoredTasks(localStorage')
    IN  \A i \in 1..Len(pre) :
            \A j \in 1..Len(post) :
                post[j].id = pre[i].id => post[j].userId = pre[i].userId

\* C17: the owner of a task never changes: once a task is stored with an
\* owner, every task stored later under the same id has that owner.
C17_OwnerImmutable == [][OwnerKept]_vars

-----------------------------------------------------------------------------
(* SpecConc: calls of the storage service made before earlier ones have     *)
(* completed.  saveTask, deleteTask and deleteAllTasks await their delay    *)
(* (150, 100 and 300 ms) and then run getItem, the change and setItem in    *)
(* one piece; a call made later can so complete earlier.  addNotification   *)
(* has no await and runs within the call.  last keeps localStorage as it    *)
(* was before the calls and the calls in the order they were made.          *)

\* Calls made in one behaviour.
MaxCalls == 3

ConcTaskIds == {"t1", "t2"}

ConcTaskArgs ==
    {t \in TaskArgs : t.id \in ConcTaskIds /\ t.finishedTime = Undefined}

ConcNotifArgs(ls) ==
    {n \in NotifArgs(ls) : n.type = "overdue" /\ n.createdAt = ToISOString(0)}

\* A variant in which the bodies work on the store as it was before the
\* calls were made.
StoreReadStale == last.before

\* What getItem returns in the body of a call: the body runs after the
\* await, so it reads the store of the moment it runs.
StoreRead == localStorage

InitConc ==
    /\ localStorage \in
          {EmptyStorage, [EmptyStorage EXCEPT ![TASKS_STORAGE_KEY] = SomeTasks]}
    /\ clock = 0
    /\ last = [op |-> "calls", before |-> localStorage, calls |-> <<>>]
    /\ NoApp

\* saveTask(task) up to await delay(150).
SaveTaskCalled ==
    \E task \in ConcTaskArgs :
        LET call == [op |-> "saveTask", task |-> task]
        IN  /\ Len(last.calls) < MaxCalls
            /\ inflight' = With(inflight, call)
            /\ last' = [last EXCEPT !.calls = Append(@, call)]
            /\ UNCHANGED <<localStorage, clock, stateVars, viewVars, effectDue,
                           taskSeq, toggleSeq, loginSeq, justReloaded>>

\* saveTask after the await.
SaveTaskBody ==
    \E call \in BagToSet(inflight) :
        /\ call.op = "saveTask"
        /\ localStorage' = SaveTask(StoreRead, call.task)
        /\ inflight' = Without(call)
        /\ UNCHANGED <<clock, last, stateVars, viewVars, effectDue,
                       taskSeq, toggleSeq, loginSeq, justReloaded>>

\* deleteTask(taskId) up to await delay(100).
DeleteTaskCalled ==
    \E taskId \in ConcTaskIds :
        LET call == [op |-> "deleteTask", taskId |-> taskId]
        IN  /\ Len(last.calls) < MaxCalls
            /\ inflight' = With(inflight, call)
            /\ last' = [last EXCEPT !.calls = Append(@, call)]
            /\ UNCHANGED <<localStorage, clock, stateVars, viewVars, effectDue,
                           taskSeq, toggleSeq, loginSeq, justReloaded>>

\* deleteTask after the await.
DeleteTaskBody ==
    \E call \in BagToSet(inflight) :
        /\ call.op = "deleteTask"
        /\ localStorage' = DeleteTask(StoreRead, call.taskId)
        /\ inflight' = Without(call)
        /\ UNCHANGED <<clock, last, stateVars, viewVars, effectDue,
                       taskSeq, toggleSeq, loginSeq, justReloaded>>

\* deleteAllTasks(userId) up to await delay(300).
DeleteAllTasksCalled ==
    \E userId \in UserIds :
        LET call == [op |-> "deleteAllTasks", userId |-> userId]
        IN  /\ Len(last.calls) < MaxCalls
            /\ inflight' = With(inflight, call)
            /\ last' = [last EXCEPT !.calls = Append(@, call)]
            /\ UNCHANGED <<localStorage, clock, stateVars, viewVars, effectDue,
                           taskSeq, toggleSeq, loginSeq, justReloaded>>

\* deleteAllTasks after the await.
DeleteAllTasksBody ==
    \E call \in BagToSet(inflight) :
        /\ call.op = "deleteAllTasks"
        /\ localStorage' = DeleteAllTasks(StoreRead, call.userId)
        /\ inflight' = Without(call)
        /\ UNCHANGED <<clock, last, stateVars, viewVars, effectDue,
                       taskSeq, toggleSeq, loginSeq, justReloaded>>

\* addNotification(notification): the whole call, it has no await.
AddNotificationCalled ==
    \E notification \in ConcNotifArgs(localStorage) :
        LET call == [op |-> "addNotification", notification |-> notification]
        IN  /\ Len(last.calls) < MaxCalls
            /\ localStorage' = AddNotification(StoreRead, notification)
            /\ last' = [last EXCEPT !.calls = Append(@, call)]
            /\ UNCHANGED <<clock, stateVars, viewVars, asyncVars>>

NextConc ==
    \/ SaveTaskCalled
    \/ SaveTaskBody
    \/ DeleteTaskCalled
    \/ DeleteTaskBody
    \/ DeleteAllTasksCalled
    \/ DeleteAllTasksBody
    \/ AddNotificationCalled

SpecConc == InitConc /\ [][NextConc]_vars

\* localStorage after one call made alone on ls.
CallAlone(ls, call) ==
    CASE call.op = "saveTask" -> SaveTask(ls, call.task)
      [] call.op = "deleteTask" -> DeleteTask(ls, call.taskId)
      [] call.op = "deleteAllTasks" -> DeleteAllTasks(ls, call.userId)
      [] call.op = "addNotification" -> AddNotification(ls, call.notification)

\* localStorage after the calls made one after another, each completed
\* before the next is made.
RECURSIVE OneAfterAnother(_, _)
OneAfterAnother(ls, calls) ==
    IF calls = <<>> THEN ls
    ELSE OneAfterAnother(CallAlone(ls, Head(calls)), Tail(calls))

\* The orders of n calls.
Orders(n) ==
    {p \in [1..n -> 1..n] : \A i, j \in 1..n : p[i] = p[j] => i = j}

\* C19: when all the calls made have completed, localStorage is what the
\* same calls give when made one after another in some order: every body
\* took effect in one piece and no write was lost.
C19_Serialized ==
    (last.op = "calls" /\ inflight = EmptyBag) =>
        \E p \in Orders(Len(last.calls)) :
            localStorage =
                OneAfterAnother(last.before,
                                [i \in 1..Len(last.calls) |-> last.calls[p[i]]])

\* C19, the case: three calls, among them saveTask for two tasks, have
\* completed in another order than they were made in, with another result
\* than that order gives.
C19_Witness ==
    /\ last.op = "calls"
    /\ inflight = EmptyBag
    /\ Len(last.calls) = 3
    /\ \E i, j \in 1..3 :
          /\ last.calls[i].op = "saveTask"
          /\ last.calls[j].op = "saveTask"
          /\ last.calls[i].task.id # last.calls[j].task.id
    /\ localStorage # OneAfterAnother(last.before, last.calls)

-----------------------------------------------------------------------------
(* SpecClassify: one pass of the loop of checkDeadlines over one task, with *)
(* no notification in memory, at instants on and around the deadline and    *)
(* the day before it.  last keeps the task, the instant and the kind of the *)
(* notification the pass builds (Null when it builds none).                 *)

\* The instants of new Date() in checkDeadlines, in ms: a tick, the
\* millisecond before it and the one after it.
ClassifyNows == {n * TickMs + e : n \in TimeRange, e \in {-1, 0, 1}}

\* The tasks of the list: pending or done, the deadline in either form.
ClassifyTasks ==
    {[id |-> "t1", userId |-> "u1", text |-> "a", description |-> "",
      deadline |-> dl, status |-> st[1], finishedTime |-> st[2],
      createdAt |-> ToISOString(0)] :
        dl \in {ToLocalString(n) : n \in TimeRange} \cup
                {ToISOString(n) : n \in TimeRange},
        st \in {<<"pending", Undefined>>, <<"done", ToISOString(0)>>}}

\* The kind of the notification the loop builds for a task at nowMs.
KindBuilt(task, nowMs) ==
    LET run == [tasks |-> <<task>>, now |-> nowMs, notifications |-> <<>>]
    IN  IF Notifies(run, 1) THEN Classify(task, nowMs) ELSE Null

InitClassify ==
    /\ localStorage = EmptyStorage
    /\ clock = 0
    /\ last = NoCall
    /\ NoApp

\* The body of the loop for one task.
CheckDeadlinesPass ==
    \E task \in ClassifyTasks, nowMs \in ClassifyNows :
        /\ last' = [op |-> "checkDeadlines", task |-> task, now |-> nowMs,
                    kind |-> KindBuilt(task, nowMs)]
        /\ UNCHANGED <<localStorage, clock, stateVars, viewVars, asyncVars>>

SpecClassify == InitClassify /\ [][CheckDeadlinesPass]_vars

\* C21: a task that is done gives no notification; a task that is not done
\* gives overdue exactly when its deadline is before now, upcoming exactly
\* when its deadline is not before now and less than 24 hours ahead, and
\* nothing otherwise; it never gives both kinds.
C21_Classification ==
    last.op = "checkDeadlines" =>
        LET deadline == GetTime(last.task.deadline)
        IN  /\ last.kind \in {"overdue", "upcoming", Null}
            /\ last.task.status = "done" => last.kind = Null
            /\ last.task.status # "done" =>
                  /\ last.kind = "overdue" <=> deadline < last.now
                  /\ last.kind = "upcoming" <=>
                        (last.now <= deadline /\ deadline - last.now < OneDay)

\* C21, the case: a pending task whose deadline is one millisecond less than
\* 24 hours ahead has given upcoming.
C21_Witness ==
    /\ last.op = "checkDeadlines"
    /\ last.task.status = "pending"
    /\ GetTime(last.task.deadline) - last.now = OneDay - 1
    /\ last.kind = "upcoming"

\* C21 with 24 hours ahead counted as within 24 hours: a task that is not
\* done gives upcoming exactly when its deadline is not before now and at
\* most 24 hours ahead.
C21_WithinOneDayInclusive ==
    (last.op = "checkDeadlines" /\ last.task.status # "done") =>
        (last.kind = "upcoming" <=>
            (last.now <= GetTime(last.task.deadline)
             /\ GetTime(last.task.deadline) - last.now <= OneDay))

-----------------------------------------------------------------------------
(* SpecSession: one session of one user, from handleLogin on: the task form *)
(* (new and edit), the status toggle, the delete button and the confirmed   *)
(* delete-all, with loadData and the deadline evaluator behind them.  No    *)
(* logout: what the list holds comes from this user alone.                  *)

\* The App right after handleLogin on an empty store: loadData is awaited.
InitSession ==
    /\ localStorage = EmptyStorage
    /\ clock = 0
    /\ last = NoCall
    /\ user \in AppUserIds
    /\ tasks = <<>>
    /\ notifications = <<>>
    /\ searchQuery = ""
    /\ filter = "all"
    /\ sortBy = "deadline-asc"
    /\ filteredAndSortedTasks = <<>>
    /\ inflight = SetToBag({[kind |-> "loadData", userId |-> user,
                             notifsData |-> GetNotifications(localStorage, user)]})
    /\ effectDue = TRUE
    /\ taskSeq = 0
    /\ toggleSeq = 0
    /\ loginSeq = 1
    /\ justReloaded = FALSE

\* handleDelete up to its await: setTasks first, deleteTask is then awaited.
HandleDelete ==
    \E k \in 1..Len(tasks) :
        LET OtherId(t) == t.id # tasks[k].id
        IN  /\ Settled
            /\ user # Null
            /\ CountOf(TimedCalls) < MaxInFlight
            /\ Render(SelectSeq(tasks, OtherId), searchQuery, filter, sortBy)
            /\ inflight' = With(inflight, [kind |-> "handleDelete", id |-> tasks[k].id])
            /\ effectDue' = TRUE
            /\ justReloaded' = FALSE
            /\ UNCHANGED <<serviceVars, user, notifications, searchQuery, filter,
                           sortBy, taskSeq, toggleSeq, loginSeq>>

\* handleDelete after its await: deleteTask has written.
DeleteTaskDone ==
    \E call \in TimedCalls :
        /\ Settled
        /\ call.kind = "handleDelete"
        /\ localStorage' = DeleteTask(localStorage, call.id)
        /\ inflight' = Without(call)
        /\ justReloaded' = FALSE
        /\ UNCHANGED <<clock, last, stateVars, viewVars, effectDue, taskSeq,
                       toggleSeq, loginSeq>>

\* handleConfirmDeleteAll up to its await: setTasks([]) first.  The dialog
\* is opened by handleDeleteAllClick, which needs a task in the list.
HandleConfirmDeleteAll ==
    /\ Settled
    /\ user # Null
    /\ Len(tasks) > 0
    /\ CountOf(TimedCalls) < MaxInFlight
    /\ Render(<<>>, searchQuery, filter, sortBy)
    /\ inflight' = With(inflight, [kind |-> "handleConfirmDeleteAll", userId |-> user])
    /\ effectDue' = TRUE
    /\ justReloaded' = FALSE
    /\ UNCHANGED <<serviceVars, user, notifications, searchQuery, filter,
                   sortBy, taskSeq, toggleSeq, loginSeq>>

\* handleConfirmDeleteAll after its await: deleteAllTasks has written; it
\* does not reject, so the catch with loadData is not entered.
DeleteAllTasksDone ==
    \E call \in TimedCalls :
        /\ Settled
        /\ call.kind = "handleConfirmDeleteAll"
        /\ localStorage' = DeleteAllTasks(localStorage, call.userId)
        /\ inflight' = Without(call)
        /\ justReloaded' = FALSE
        /\ UNCHANGED <<clock, last, stateVars, viewVars, effectDue, taskSeq,
                       toggleSeq, loginSeq>>

NextSession ==
    \/ LoadDataDone
    \/ HandleSaveTask
    \/ HandleEditTask
    \/ SaveTaskDone
    \/ HandleToggleStatus
    \/ ToggleStatusDone
    \/ HandleDelete
    \/ DeleteTaskDone
    \/ HandleConfirmDeleteAll
    \/ DeleteAllTasksDone
    \/ DeadlineEffect
    \/ ResumeCheckDeadlines

SpecSession == InitSession /\ [][NextSession]_vars

\* A task has a completion timestamp exactly when it is done.
FinishedIffDone(t) ==
    (Get(t, "finishedTime") \notin {Undefined, Null, ""}) <=> (t.status = "done")

\* Every task of the store and of the list has a completion timestamp
\* exactly when it is done.
TimestampTracksStatus ==
    /\ \A i \in 1..Len(StoredTasks(localStorage)) :
          FinishedIffDone(StoredTasks(localStorage)[i])
    /\ \A k \in 1..Len(tasks) : FinishedIffDone(tasks[k])

\* The step in which handleSaveTask writes a task whose id is stored leaves
\* the status and the completion timestamp of the stored task as they were.
EditKeepsStatus ==
    \A call \in TimedCalls :
        (call.kind = "handleSaveTask" /\ inflight' = Without(call)) =>
            \A i \in 1..Len(StoredTasks(localStorage)) :
                \A j \in 1..Len(StoredTasks(localStorage')) :
                    LET pre == StoredTasks(localStorage)[i]
                        post == StoredTasks(localStorage')[j]
                    IN  (pre.id = call.newTask.id /\ post.id = pre.id) =>
                            /\ post.status = pre.status
                            /\ Get(post, "finishedTime") = Get(pre, "finishedTime")

\* C22: in every state every task of the store and of the in-memory list
\* has a completion timestamp exactly when its status is done, and an edit
\* changes neither the status nor the completion timestamp of the task.
C22_CompletionTimestamp ==
    /\ []TimestampTracksStatus
    /\ [][EditKeepsStatus]_vars

\* The elements of a list of tasks, as JSON keeps them.
TaskSet(taskList) == {JsonObject(taskList[k]) : k \in 1..Len(taskList)}

\* C23: when no call is under way, the in-memory list holds exactly the
\* tasks the store holds for the user, with the same field values; a task
\* the user has deleted is in neither.
C23_MemoryMatchesStore ==
    (user # Null /\ inflight = EmptyBag /\ ~effectDue) =>
        TaskSet(tasks) = TaskSet(GetTasks(localStorage, user))

-----------------------------------------------------------------------------
(* SpecQuota: the mutations of the storage service over a localStorage     *)
(* whose setItem may throw (the quota is exceeded).  A mutation whose       *)
(* setItem is inside a try block catches the error and resolves; one whose *)
(* setItem is outside rejects with it.  The blob is left as it was.        *)

\* The error localStorage.setItem throws when the quota is exceeded.
QuotaExceeded == "QuotaExceededError"

\* What a call leaves in localStorage and gives its caller: error is
\* Undefined when the promise resolves.
Resolved(ls) == [ls |-> ls, error |-> Undefined]
Rejected(ls, error) == [ls |-> ls, error |-> error]

\* Whether the mutation calls setItem.
SaveTaskWrites(ls, task) == TRUE
DeleteTaskWrites(ls, taskId) == ls[TASKS_STORAGE_KEY].kind \in {"array", "absent"}
DeleteAllTasksWrites(ls, userId) == ls[TASKS_STORAGE_KEY].kind \in {"array", "absent"}
AddNotificationWrites(ls, notification) ==
    /\ ls[NOTIFICATIONS_STORAGE_KEY].kind # "unparseable"
    /\ ~NotificationExists(ItemsOrEmpty(ls[NOTIFICATIONS_STORAGE_KEY]), notification)
MarkNotificationReadWrites(ls, notificationId) ==
    /\ ls[NOTIFICATIONS_STORAGE_KEY].kind = "array"
    /\ \E i \in 1..Len(ls[NOTIFICATIONS_STORAGE_KEY].items) :
          ls[NOTIFICATIONS_STORAGE_KEY].items[i].id = notificationId
MarkAllNotificationsReadWrites(ls, userId) ==
    ls[NOTIFICATIONS_STORAGE_KEY].kind \in {"array", "absent"}
RegisterWrites(ls, username) ==
    ~\E i \in 1..Len(GetSafeUsers(ls)) : GetSafeUsers(ls)[i].username = username

\* The mutations when setItem throws.  saveTask and register call setItem
\* outside any try block; the other five catch and log.
SaveTaskFull(ls, task) == Rejected(ls, QuotaExceeded)
DeleteTaskFull(ls, taskId) == Resolved(ls)
DeleteAllTasksFull(ls, userId) == Resolved(ls)
AddNotificationFull(ls, notification) == Resolved(ls)
MarkNotificationReadFull(ls, notificationId) == Resolved(ls)
MarkAllNotificationsReadFull(ls, userId) == Resolved(ls)
RegisterFull(ls, username, password, nowMs) ==
    IF RegisterWrites(ls, username)
    THEN Rejected(ls, QuotaExceeded)
    ELSE Rejected(ls, UsernameTaken)

\* The arguments of the calls: two tasks and the notifications of one user.
QuotaTaskArgs ==
    {t \in TaskArgs : t.id \in {"t1", "t2"} /\ t.userId = "u1" /\ t.status = "done"}
QuotaNotifArgs(ls) ==
    {n \in NotifArgs(ls) : n.userId = "u1" /\ n.createdAt = ToISOString(0)}

InitQuota ==
    /\ localStorage = EmptyStorage
    /\ clock = 0
    /\ last = NoCall
    /\ NoApp

\* The record of a call: localStorage before it, whether setItem throws in
\* it, whether it calls setItem, and the error it gives its caller.
Called(op, before, full, writes, outcome) ==
    [op |-> op, before |-> before, full |-> full, writes |-> writes,
     error |-> outcome.error]

SaveTaskQuota ==
    \E task \in QuotaTaskArgs, full \in BOOLEAN :
        LET outcome ==
              IF full THEN SaveTaskFull(localStorage, task)
              ELSE Resolved(SaveTask(localStorage, task))
        IN  /\ localStorage' = outcome.ls
            /\ last' = Called("saveTask", localStorage, full,
                            SaveTaskWrites(localStorage, task), outcome)
            /\ UNCHANGED <<clock, stateVars, viewVars, asyncVars>>

DeleteTaskQuota ==
    \E taskId \in {"t1", "t2"}, full \in BOOLEAN :
        LET outcome ==
              IF full THEN DeleteTaskFull(localStorage, taskId)
              ELSE Resolved(DeleteTask(localStorage, taskId))
        IN  /\ localStorage' = outcome.ls
            /\ last' = Called("deleteTask", localStorage, full,
                            DeleteTaskWrites(localStorage, taskId), outcome)
            /\ UNCHANGED <<clock, stateVars, viewVars, asyncVars>>

DeleteAllTasksQuota ==
    \E userId \in UserIds, full \in BOOLEAN :
        LET outcome ==
              IF full THEN DeleteAllTasksFull(localStorage, userId)
              ELSE Resolved(DeleteAllTasks(localStorage, userId))
        IN  /\ localStorage' = outcome.ls
            /\ last' = Called("deleteAllTasks", localStorage, full,
                            DeleteAllTasksWrites(localStorage, userId), outcome)
            /\ UNCHANGED <<clock, stateVars, viewVars, asyncVars>>

AddNotificationQuota ==
    \E notification \in QuotaNotifArgs(localStorage), full \in BOOLEAN :
        LET outcome ==
              IF full THEN AddNotificationFull(localStorage, notification)
              ELSE Resolved(AddNotification(localStorage, notification))
        IN  /\ localStorage' = outcome.ls
            /\ last' = Called("addNotification", localStorage, full,
                            AddNotificationWrites(localStorage, notification), outcome)
            /\ UNCHANGED <<clock, stateVars, viewVars, asyncVars>>

MarkNotificationReadQuota ==
    \E notificationId \in NotifIds, full \in BOOLEAN :
        LET outcome ==
              IF full THEN MarkNotificationReadFull(localStorage, notificationId)
              ELSE Resolved(MarkNotificationRead(localStorage, notificationId))
        IN  /\ localStorage' = outcome.ls
            /\ last' = Called("markNotificationRead", localStorage, full,
                            MarkNotificationReadWrites(localStorage, notificationId), outcome)
            /\ UNCHANGED <<clock, stateVars, viewVars, asyncVars>>

MarkAllNotificationsReadQuota ==
    \E userId \in UserIds, full \in BOOLEAN :
        LET outcome ==
              IF full THEN MarkAllNotificationsReadFull(localStorage, userId)
              ELSE Resolved(MarkAllNotificationsRead(localStorage, userId))
        IN  /\ localStorage' = outcome.ls
            /\ last' = Called("markAllNotificationsRead", localStorage, full,
                            MarkAllNotificationsReadWrites(localStorage, userId), outcome)
            /\ UNCHANGED <<clock, stateVars, viewVars, asyncVars>>

RegisterQuota ==
    \E username \in Usernames, full \in BOOLEAN :
        LET r == Register(localStorage, username, "pw1", NowMs)
            outcome ==
              IF full THEN RegisterFull(localStorage, username, "pw1", NowMs)
              ELSE IF r.ok THEN Resolved(r.ls)
              ELSE Rejected(r.ls, r.error)
        IN  /\ localStorage' = outcome.ls
            /\ last' = Called("register", localStorage, full,
                            RegisterWrites(localStorage, username), outcome)
            /\ UNCHANGED <<clock, stateVars, viewVars, asyncVars>>

NextQuota ==
    \/ SaveTaskQuota
    \/ DeleteTaskQuota
    \/ DeleteAllTasksQuota
    \/ AddNotificationQuota
    \/ MarkNotificationReadQuota
    \/ MarkAllNotificationsReadQuota
    \/ RegisterQuota

SpecQuota == InitQuota /\ [][NextQuota]_vars

\* C14 (write failures are swallowed): a mutation of the storage service in
\* which setItem throws still resolves: its caller gets no error.
C14_WriteFailuresSwallowed ==
    (last.op # "none" /\ last.full /\ last.writes) => last.error = Undefined

====
